---------------------------- MODULE Spec2Model ----------------------------
(***************************************************************************)
(* Model of src/api/index.py: the /api/generate-pdf request handler, the   *)
(* HTMLTableParser callbacks it drives, and the response it returns.       *)
(*                                                                         *)
(* Text is a sequence of characters.  The markup of a request reaches the  *)
(* parser as the stream of callbacks HTMLParser.feed makes: a start tag,   *)
(* an end tag or a chunk of text.  `fed` holds the callbacks made so far.  *)
(* Python lists are objects: `heap` holds every row list the parser has    *)
(* allocated, current_row and the entries of table_data are references     *)
(* into it.                                                                *)
(***************************************************************************)
EXTENDS Naturals, Sequences, FiniteSets

VARIABLES
    pc,        \* position of the request: "idle", "feed", "done"
    data,      \* request.get_json(), once the request has arrived
    parser,    \* <<>> before HTMLTableParser() is called, <<p>> afterwards
    fed,       \* the callbacks HTMLParser.feed has made so far
    raised,    \* <<>> or <<e>>: the exception create_pdf_from_table raised
    buffer,    \* <<>> or <<b>>: the BytesIO create_pdf_from_table returned
    response,  \* the responses returned to the caller, in order
    reqs,      \* requests handled concurrently: the locals of each call
    instances  \* the HTMLTableParser objects those calls have made

vars == <<pc, data, parser, fed, raised, buffer, response, reqs, instances>>

(***************************************************************************)
(* Bounds of the model.                                                    *)
(***************************************************************************)
MaxLen == 4          \* callbacks per markup, the example and the tables apart
MaxRows == 3         \* rows of a well-formed table
MaxCells == 3        \* cells of a well-formed table, all rows together
MaxConcLen == 2      \* callbacks per markup of a concurrent request

(***************************************************************************)
(* Text.                                                                   *)
(***************************************************************************)
Whitespace == {" ", "\n", "\t"}

RECURSIVE lstrip(_)
lstrip(s) ==
    IF s = <<>> THEN s
    ELSE IF Head(s) \in Whitespace THEN lstrip(Tail(s)) ELSE s

RECURSIVE rstrip(_)
rstrip(s) ==
    IF s = <<>> THEN s
    ELSE IF s[Len(s)] \in Whitespace THEN rstrip(SubSeq(s, 1, Len(s) - 1)) ELSE s

\* str.strip()
strip(s) == rstrip(lstrip(s))

\* ''.join(chunks)
RECURSIVE join(_)
join(chunks) ==
    IF chunks = <<>> THEN <<>> ELSE Head(chunks) \o join(Tail(chunks))

(***************************************************************************)
(* The callbacks of HTMLParser.feed.                                       *)
(***************************************************************************)
Start(t) == [kind |-> "start", tag |-> t, data |-> <<>>]
End(t) == [kind |-> "end", tag |-> t, data |-> <<>>]
Data(d) == [kind |-> "data", tag |-> "", data |-> d]

\* the five tags the parser knows, and one it does not
Tags == {"table", "tr", "td", "b", "pre", "div"}

Chunks == {<<" ", "a">>, <<"b", " ">>}

Events == {Start(t) : t \in Tags} \cup {End(t) : t \in Tags}
              \cup {Data(c) : c \in Chunks}

\* the two-row example of the documentation
ExampleMarkup ==
    << Start("table"),
       Start("tr"),
         Start("td"), Start("b"), Data(<<"N", "a", "m", "e">>), End("b"), End("td"),
         Start("td"), Data(<<"A", "l", "i", "c", "e">>), End("td"),
       End("tr"),
       Start("tr"),
         Start("td"), Start("b"), Data(<<"A", "g", "e">>), End("b"), End("td"),
         Start("td"), Data(<<"3", "0">>), End("td"),
       End("tr"),
       End("table") >>

IsPrefix(s, t) == Len(s) <= Len(t) /\ SubSeq(t, 1, Len(s)) = s

\* Well-formed tables: <table>, at most MaxRows rows that hold at most
\* MaxCells cells in all, each cell one chunk of text, </table>.  WFAfter(s) is where the
\* callbacks s stand in such a table; phase "bad" if they are not a prefix
\* of one.
WFStep(w, ev) ==
    CASE w.phase = "start" /\ ev = Start("table") ->
            [w EXCEPT !.phase = "table"]
      [] w.phase = "table" /\ ev = Start("tr") /\ w.rows < MaxRows ->
            [w EXCEPT !.phase = "row", !.rows = @ + 1]
      [] w.phase = "table" /\ ev = End("table") ->
            [w EXCEPT !.phase = "end"]
      [] w.phase = "row" /\ ev = Start("td") /\ w.cells < MaxCells ->
            [w EXCEPT !.phase = "cell", !.cells = @ + 1]
      [] w.phase = "row" /\ ev = End("tr") ->
            [w EXCEPT !.phase = "table"]
      [] w.phase = "cell" /\ ev.kind = "data" /\ ev.data \in Chunks ->
            [w EXCEPT !.phase = "text"]
      [] w.phase = "text" /\ ev = End("td") ->
            [w EXCEPT !.phase = "row"]
      [] OTHER ->
            [w EXCEPT !.phase = "bad"]

RECURSIVE WFUpTo(_, _)
WFUpTo(s, n) ==
    IF n = 0 THEN [phase |-> "start", rows |-> 0, cells |-> 0]
    ELSE WFStep(WFUpTo(s, n - 1), s[n])

WFAfter(s) == WFUpTo(s, Len(s))

IsWellFormed(s) == WFAfter(s).phase = "end"

\* (the first conjunct follows from the second; it spares the walk)
IsWellFormedPrefix(s) ==
    /\ s # <<>> => s[1] = Start("table")
    /\ WFAfter(s).phase # "bad"

\* the markups of the model: every sequence of at most MaxLen callbacks, the
\* example, and the well-formed tables
IsMarkup(s) ==
    \/ Len(s) <= MaxLen /\ \A i \in 1..Len(s) : s[i] \in Events
    \/ s = ExampleMarkup
    \/ IsWellFormed(s)

IsMarkupPrefix(s) ==
    \/ Len(s) <= MaxLen /\ \A i \in 1..Len(s) : s[i] \in Events
    \/ IsPrefix(s, ExampleMarkup)
    \/ IsWellFormedPrefix(s)

AllEvents == Events \cup {ExampleMarkup[i] : i \in 1..Len(ExampleMarkup)}

(***************************************************************************)
(* HTMLTableParser.                                                        *)
(***************************************************************************)
\* HTMLTableParser.__init__
NewParser ==
    [ table_data   |-> <<>>,
      current_row  |-> 1,
      current_cell |-> <<>>,
      in_table     |-> FALSE,
      in_row       |-> FALSE,
      in_cell      |-> FALSE,
      is_bold      |-> FALSE,
      in_pre       |-> FALSE,
      heap         |-> << <<>> >> ]

start_table(p) == [p EXCEPT !.in_table = TRUE]

\* as start_tr, but current_row keeps the list it is bound to
start_tr_keeps_row(p) == [p EXCEPT !.in_row = TRUE]

\* self.current_row = [] binds current_row to a new list
start_tr(p) ==
    [p EXCEPT !.in_row = TRUE,
              !.heap = Append(@, <<>>),
              !.current_row = Len(p.heap) + 1]

\* as start_td, but the bold flag is cleared when a cell opens
start_td_clears_bold(p) ==
    [p EXCEPT !.in_cell = TRUE, !.current_cell = <<>>, !.is_bold = FALSE]

start_td(p) == [p EXCEPT !.in_cell = TRUE, !.current_cell = <<>>]

start_b(p) == [p EXCEPT !.is_bold = TRUE]

start_pre(p) == [p EXCEPT !.in_pre = TRUE]

\* as handle_starttag, but a tag it does not know starts a new cell text
handle_starttag_unknown_clears(p, tag) ==
    CASE tag = "table" -> start_table(p)
      [] tag = "tr"    -> start_tr(p)
      [] tag = "td"    -> start_td(p)
      [] tag = "b"     -> start_b(p)
      [] tag = "pre"   -> start_pre(p)
      [] OTHER         -> [p EXCEPT !.current_cell = <<>>]

handle_starttag(p, tag) ==
    CASE tag = "table" -> start_table(p)
      [] tag = "tr"    -> start_tr(p)
      [] tag = "td"    -> start_td(p)
      [] tag = "b"     -> start_b(p)
      [] tag = "pre"   -> start_pre(p)
      [] OTHER         -> p

end_table(p) == [p EXCEPT !.in_table = FALSE]

\* as end_tr, but the row is appended whether or not it holds a cell
end_tr_appends_always(p) ==
    [p EXCEPT !.in_row = FALSE, !.table_data = Append(@, p.current_row)]

\* table_data.append(self.current_row) stores the reference, not a copy
end_tr(p) ==
    [p EXCEPT !.in_row = FALSE,
              !.table_data = IF p.heap[p.current_row] # <<>>
                             THEN Append(@, p.current_row)
                             ELSE @]

\* as end_td, but the bold flag is reset before the cell is recorded
end_td_reset_first(p) ==
    LET cell_text == strip(join(p.current_cell))
    IN  [p EXCEPT !.in_cell = FALSE,
                  !.heap[p.current_row] =
                      Append(@, [text |-> cell_text, is_bold |-> FALSE]),
                  !.is_bold = FALSE]

\* as end_td, but the bold flag is left as it is
end_td_keeps_bold(p) ==
    LET cell_text == strip(join(p.current_cell))
    IN  [p EXCEPT !.in_cell = FALSE,
                  !.heap[p.current_row] =
                      Append(@, [text |-> cell_text, is_bold |-> p.is_bold])]

end_td(p) ==
    LET cell_text == strip(join(p.current_cell))
    IN  [p EXCEPT !.in_cell = FALSE,
                  !.heap[p.current_row] =
                      Append(@, [text |-> cell_text, is_bold |-> p.is_bold]),
                  !.is_bold = FALSE]

end_b(p) == [p EXCEPT !.is_bold = FALSE]

end_pre(p) == [p EXCEPT !.in_pre = FALSE]

handle_endtag(p, tag) ==
    CASE tag = "table" -> end_table(p)
      [] tag = "tr"    -> end_tr(p)
      [] tag = "td"    -> end_td(p)
      [] tag = "b"     -> end_b(p)
      [] tag = "pre"   -> end_pre(p)
      [] OTHER         -> p

\* as handle_data, but the chunk is put in front of the earlier ones
handle_data_prepend(p, d) ==
    IF p.in_cell THEN [p EXCEPT !.current_cell = <<d>> \o @] ELSE p

\* as handle_data, but the chunk is kept whether or not a cell is open
handle_data_always(p, d) == [p EXCEPT !.current_cell = Append(@, d)]

handle_data(p, d) ==
    IF p.in_cell THEN [p EXCEPT !.current_cell = Append(@, d)] ELSE p

\* one callback of HTMLParser.feed
Dispatch(p, ev) ==
    CASE ev.kind = "start" -> handle_starttag(p, ev.tag)
      [] ev.kind = "end"   -> handle_endtag(p, ev.tag)
      [] OTHER             -> handle_data(p, ev.data)

\* parser.table_data as a value: the rows the references point to
TableModel(p) == [i \in 1..Len(p.table_data) |-> p.heap[p.table_data[i]]]

\* the parser after parser.feed of a whole callback sequence
RECURSIVE ParserAfter(_)
ParserAfter(evs) ==
    IF evs = <<>> THEN NewParser
    ELSE Dispatch(ParserAfter(SubSeq(evs, 1, Len(evs) - 1)), evs[Len(evs)])


(***************************************************************************)
(* The request and the response.                                           *)
(***************************************************************************)
\* request.get_json(): None, or an object with some keys.  htmlTable is the
\* markup as text; MarkupText stands for every markup that is not blank:
\* what the parser receives from it is drawn callback by callback in Feed.
MarkupText == <<" ", "<", "\n">>

HtmlTexts == {<<>>, <<" ">>, <<"\n", " ", "\t">>, MarkupText}

Requests ==
    {[none |-> TRUE, keys |-> {}, htmlTable |-> <<>>]}
        \cup {[none |-> FALSE, keys |-> k, htmlTable |-> <<>>] : k \in {{}, {"other"}}}
        \cup {[none |-> FALSE, keys |-> {"htmlTable"}, htmlTable |-> h] : h \in HtmlTexts}

\* jsonify(body), status
json_response(body, status) ==
    [status |-> status, mimetype |-> "application/json", json |-> body, file |-> <<>>]

\* send_file(pdf_buffer, mimetype='application/pdf', ...)
send_file(pdf_buffer) ==
    [status |-> 200, mimetype |-> "application/pdf", json |-> {}, file |-> <<pdf_buffer>>]

\* not data or 'htmlTable' not in data
missing_field(d) == d.none \/ d.keys = {} \/ "htmlTable" \notin d.keys

\* as empty_html, without the strip
empty_html_no_strip(html_table) == html_table = <<>>

\* not html_table or not html_table.strip()
empty_html(html_table) == html_table = <<>> \/ strip(html_table) = <<>>

missing_response ==
    json_response({<<"error", "Missing required field 'htmlTable' in request body">>}, 400)

empty_response == json_response({<<"error", "htmlTable cannot be empty">>}, 400)

\* except Exception as e: ... 500
except_handler(e) ==
    json_response({<<"error", "Failed to generate PDF">>, <<"details", e.msg>>}, 500)

\* as no_table_data, but the check is missing
no_table_data_unchecked(p) == FALSE

\* if not parser.table_data
no_table_data(p) == p.table_data = <<>>

NoTableError == [type |-> "ValueError", msg |-> "No table data found in HTML", at |-> "parse"]

\* what Table(...), Paragraph(...) or doc.build(elements) may raise
BuildErrors ==
    {[type |-> "LayoutError", msg |-> "Flowable too large on page 1", at |-> "render"],
     [type |-> "ValueError", msg |-> "data error - 3 columns in data but 2 in column widths",
      at |-> "render"]}

\* the bytes doc.build writes into the buffer
pdf_bytes(p) == [signature |-> "%PDF", table |-> TableModel(p)]

(***************************************************************************)
(* Concurrent requests: each call of generate_pdf has its own locals, and  *)
(* the parser it makes is an object of the process.                        *)
(***************************************************************************)
Calls == {1, 2}

\* the locals of a call that has not read its request yet; parser = 0: none
NewCall ==
    [pc |-> "idle", data |-> <<>>, parser |-> 0, fed |-> <<>>,
     raised |-> <<>>, buffer |-> <<>>, response |-> <<>>]

\* as allocate, but one parser object serves every call
allocate_shared(objs) ==
    IF objs = <<>> THEN [instances |-> <<NewParser>>, ref |-> 1]
    ELSE [instances |-> objs, ref |-> 1]

\* parser = HTMLTableParser(): a new object, and the reference to it
allocate(objs) == [instances |-> Append(objs, NewParser), ref |-> Len(objs) + 1]

ConcEvents == {Start("td"), End("td"), End("tr"), Start("b"), Data(<<" ", "a">>)}

(***************************************************************************)
(* The state machine.                                                      *)
(***************************************************************************)
Init ==
    /\ pc = "idle"
    /\ data = <<>>
    /\ parser = <<>>
    /\ fed = <<>>
    /\ raised = <<>>
    /\ buffer = <<>>
    /\ response = <<>>
    /\ reqs = [i \in Calls |-> NewCall]
    /\ instances = <<>>

\* generate_pdf: the field is missing
RejectMissing(d) ==
    /\ pc = "idle"
    /\ missing_field(d)
    /\ data' = <<d>>
    /\ response' = Append(response, missing_response)
    /\ pc' = "done"
    /\ UNCHANGED <<parser, fed, raised, buffer, reqs, instances>>

\* generate_pdf: the field is blank
RejectEmpty(d) ==
    /\ pc = "idle"
    /\ ~missing_field(d)
    /\ empty_html(d.htmlTable)
    /\ data' = <<d>>
    /\ response' = Append(response, empty_response)
    /\ pc' = "done"
    /\ UNCHANGED <<parser, fed, raised, buffer, reqs, instances>>

\* generate_pdf calls create_pdf_from_table, which makes the parser
Accept(d) ==
    /\ pc = "idle"
    /\ ~missing_field(d)
    /\ ~empty_html(d.htmlTable)
    /\ data' = <<d>>
    /\ parser' = <<NewParser>>
    /\ pc' = "feed"
    /\ UNCHANGED <<fed, raised, buffer, response, reqs, instances>>

\* parser.feed(html_table): the next callback
Feed(ev) ==
    /\ pc = "feed"
    /\ IsMarkupPrefix(Append(fed, ev))
    /\ parser' = <<Dispatch(parser[1], ev)>>
    /\ fed' = Append(fed, ev)
    /\ UNCHANGED <<pc, data, raised, buffer, response, reqs, instances>>

\* feed has returned and table_data is empty: ValueError, caught in generate_pdf
RaiseNoTable ==
    /\ pc = "feed"
    /\ IsMarkup(fed)
    /\ no_table_data(parser[1])
    /\ raised' = <<NoTableError>>
    /\ response' = Append(response, except_handler(NoTableError))
    /\ pc' = "done"
    /\ UNCHANGED <<data, parser, fed, buffer, reqs, instances>>

\* building the document raises, caught in generate_pdf
RaiseBuild(e) ==
    /\ pc = "feed"
    /\ IsMarkup(fed)
    /\ ~no_table_data(parser[1])
    /\ raised' = <<e>>
    /\ response' = Append(response, except_handler(e))
    /\ pc' = "done"
    /\ UNCHANGED <<data, parser, fed, buffer, reqs, instances>>

\* the document is built and sent
SendFile ==
    /\ pc = "feed"
    /\ IsMarkup(fed)
    /\ ~no_table_data(parser[1])
    /\ buffer' = <<pdf_bytes(parser[1])>>
    /\ response' = Append(response, send_file(pdf_bytes(parser[1])))
    /\ pc' = "done"
    /\ UNCHANGED <<data, parser, fed, raised, reqs, instances>>

Next ==
    \/ \E d \in Requests : RejectMissing(d)
    \/ \E d \in Requests : RejectEmpty(d)
    \/ \E d \in Requests : Accept(d)
    \/ \E ev \in AllEvents : Feed(ev)
    \/ RaiseNoTable
    \/ \E e \in BuildErrors : RaiseBuild(e)
    \/ SendFile

Spec == Init /\ [][Next]_vars

(***************************************************************************)
(* The state machine of two requests handled concurrently: the steps of    *)
(* the two calls interleave.                                               *)
(***************************************************************************)
one == <<pc, data, parser, fed, raised, buffer, response>>

CRejectMissing(i, d) ==
    /\ reqs[i].pc = "idle"
    /\ missing_field(d)
    /\ reqs' = [reqs EXCEPT ![i].data = <<d>>,
                            ![i].response = Append(@, missing_response),
                            ![i].pc = "done"]
    /\ UNCHANGED <<instances, one>>

CRejectEmpty(i, d) ==
    /\ reqs[i].pc = "idle"
    /\ ~missing_field(d)
    /\ empty_html(d.htmlTable)
    /\ reqs' = [reqs EXCEPT ![i].data = <<d>>,
                            ![i].response = Append(@, empty_response),
                            ![i].pc = "done"]
    /\ UNCHANGED <<instances, one>>

CAccept(i, d) ==
    /\ reqs[i].pc = "idle"
    /\ ~missing_field(d)
    /\ ~empty_html(d.htmlTable)
    /\ instances' = allocate(instances).instances
    /\ reqs' = [reqs EXCEPT ![i].data = <<d>>,
                            ![i].parser = allocate(instances).ref,
                            ![i].pc = "feed"]
    /\ UNCHANGED one

CFeed(i, ev) ==
    /\ reqs[i].pc = "feed"
    /\ Len(reqs[i].fed) < MaxConcLen
    /\ instances' = [instances EXCEPT ![reqs[i].parser] = Dispatch(@, ev)]
    /\ reqs' = [reqs EXCEPT ![i].fed = Append(@, ev)]
    /\ UNCHANGED one

CRaiseNoTable(i) ==
    /\ reqs[i].pc = "feed"
    /\ no_table_data(instances[reqs[i].parser])
    /\ reqs' = [reqs EXCEPT ![i].raised = <<NoTableError>>,
                            ![i].response = Append(@, except_handler(NoTableError)),
                            ![i].pc = "done"]
    /\ UNCHANGED <<instances, one>>

CRaiseBuild(i, e) ==
    /\ reqs[i].pc = "feed"
    /\ ~no_table_data(instances[reqs[i].parser])
    /\ reqs' = [reqs EXCEPT ![i].raised = <<e>>,
                            ![i].response = Append(@, except_handler(e)),
                            ![i].pc = "done"]
    /\ UNCHANGED <<instances, one>>

CSendFile(i) ==
    /\ reqs[i].pc = "feed"
    /\ ~no_table_data(instances[reqs[i].parser])
    /\ reqs' = [reqs EXCEPT
                   ![i].buffer = <<pdf_bytes(instances[reqs[i].parser])>>,
                   ![i].response =
                       Append(@, send_file(pdf_bytes(instances[reqs[i].parser]))),
                   ![i].pc = "done"]
    /\ UNCHANGED <<instances, one>>

NextConc ==
    \/ \E i \in Calls, d \in Requests : CRejectMissing(i, d)
    \/ \E i \in Calls, d \in Requests : CRejectEmpty(i, d)
    \/ \E i \in Calls, d \in Requests : CAccept(i, d)
    \/ \E i \in Calls, ev \in ConcEvents : CFeed(i, ev)
    \/ \E i \in Calls : CRaiseNoTable(i)
    \/ \E i \in Calls, e \in BuildErrors : CRaiseBuild(i, e)
    \/ \E i \in Calls : CSendFile(i)

SpecConc == Init /\ [][NextConc]_vars

(***************************************************************************)
(* Vocabulary of the properties: what the callbacks fed so far say, read   *)
(* off `fed` alone.                                                        *)
(***************************************************************************)
Parsing == parser # <<>>

P == parser[1]

Before == SubSeq(fed, 1, Len(fed) - 1)

\* the last callback was a cell-close
CellJustClosed == Parsing /\ fed # <<>> /\ fed[Len(fed)] = End("td")

\* the cell the last callback appended
LastCell == P.heap[P.current_row][Len(P.heap[P.current_row])]

IsTag(ev, t) == ev.kind \in {"start", "end"} /\ ev.tag = t

\* the index in evs of the cell-open of the cell that is open after evs, or 0
\* when no cell is open
OpenIndex(evs) ==
    LET S == {i \in 1..Len(evs) : IsTag(evs[i], "td")}
    IN  IF S = {} THEN 0
        ELSE LET m == CHOOSE i \in S : \A j \in S : j <= i
             IN  IF evs[m].kind = "start" THEN m ELSE 0

\* the text chunks among evs[from+1 .. Len(evs)], in order of arrival
RECURSIVE ChunksFrom(_, _)
ChunksFrom(evs, from) ==
    IF Len(evs) <= from THEN <<>>
    ELSE LET rest == ChunksFrom(SubSeq(evs, 1, Len(evs) - 1), from)
             ev == evs[Len(evs)]
         IN  IF ev.kind = "data" THEN Append(rest, ev.data) ELSE rest

\* t is s without its leading and trailing whitespace, the rest unchanged
Trimmed(t, s) ==
    \E i \in 1..(Len(s) + 1) : \E j \in 0..Len(s) :
        /\ t = SubSeq(s, i, j)
        /\ \A k \in 1..(i - 1) : s[k] \in Whitespace
        /\ \A k \in (j + 1)..Len(s) : s[k] \in Whitespace
        /\ t # <<>> => t[1] \notin Whitespace /\ t[Len(t)] \notin Whitespace

\* the index in evs of the last cell-close, or 0
LastCloseIndex(evs) ==
    LET S == {i \in 1..Len(evs) : evs[i] = End("td")}
    IN  IF S = {} THEN 0 ELSE CHOOSE i \in S : \A j \in S : j <= i

\* the rows of a well-formed markup that hold a cell, each as the chunks of
\* its cells, in the order of the source: `rows` are the rows closed so far,
\* `row` the cells seen of the row that is open
RECURSIVE SourceRows(_)
SourceRows(evs) ==
    IF evs = <<>> THEN [rows |-> <<>>, row |-> <<>>]
    ELSE LET s == SourceRows(SubSeq(evs, 1, Len(evs) - 1))
             ev == evs[Len(evs)]
         IN  CASE ev = Start("tr") -> [s EXCEPT !.row = <<>>]
               [] ev = End("tr") ->
                    [rows |-> IF s.row # <<>> THEN Append(s.rows, s.row) ELSE s.rows,
                     row |-> <<>>]
               [] ev.kind = "data" -> [s EXCEPT !.row = Append(@, ev.data)]
               [] OTHER -> s

\* a cell with its cell-open was just closed
OpenCellJustClosed == CellJustClosed /\ OpenIndex(Before) > 0

NoTagBetween(t, from) ==
    \A k \in (from + 1)..(Len(fed) - 1) : ~IsTag(fed[k], t)

Cell(text, bold) == [text |-> text, is_bold |-> bold]

ExampleRows ==
    << << Cell(<<"N", "a", "m", "e">>, TRUE), Cell(<<"A", "l", "i", "c", "e">>, FALSE) >>,
       << Cell(<<"A", "g", "e">>, TRUE), Cell(<<"3", "0">>, FALSE) >> >>

Done == pc = "done"

R == response[1]

IsPdf(r) == r.file # <<>>

IsError(r) ==
    /\ r.status >= 400
    /\ r.file = <<>>
    /\ \E kv \in r.json : kv[1] = "error"

\* the request carries no markup field
NoField(d) == d.none \/ "htmlTable" \notin d.keys

\* the markup field is there and holds nothing but whitespace
BlankField(d) ==
    /\ ~NoField(d)
    /\ \A k \in 1..Len(d.htmlTable) : d.htmlTable[k] \in Whitespace

(***************************************************************************)
(* C1.  The two-row example parses to [[Name/true, Alice/false],           *)
(* [Age/true, 30/false]]: a cell whose content is bold-open, text,         *)
(* bold-close is recorded with emphasis = true.                            *)
(* The code records [[Name/false, Alice/false], [Age/false, 30/false]].    *)
(***************************************************************************)
C1_ExampleRows ==
    (Parsing /\ fed = ExampleMarkup) => TableModel(P) = ExampleRows

(***************************************************************************)
(* C2.  A markup in which no table-open tag occurs ends in an error        *)
(* response and never in a PDF.                                            *)
(***************************************************************************)
C2_NoTableOpenFails ==
    (Done /\ Parsing /\ \A i \in 1..Len(fed) : fed[i] # Start("table"))
        => (IsError(R) /\ buffer = <<>>)

(***************************************************************************)
(* C3.  A markup with a table tag and no rows ends in an error of the      *)
(* caller-error category (4xx), not a server error, and no PDF.            *)
(***************************************************************************)
C3_EmptyTableIsCallerError ==
    (Done /\ Parsing /\ (\E i \in 1..Len(fed) : fed[i] = Start("table"))
          /\ TableModel(P) = <<>>)
        => (IsError(R) /\ R.status \in 400..499)

C5_AllOrNothing ==
    /\ Len(response) <= 1
    /\ Done <=> Len(response) = 1
    /\ Done =>
        /\ IsPdf(R) # IsError(R)
        /\ IsPdf(R) =>
            /\ ~NoField(data[1]) /\ ~BlankField(data[1])
            /\ Parsing /\ Len(TableModel(P)) >= 1
            /\ raised = <<>>
            /\ R.status = 200 /\ R.file = buffer /\ R.json = {}
        /\ (raised # <<>> \/ NoField(data[1]) \/ BlankField(data[1])
                \/ (Parsing /\ TableModel(P) = <<>>))
              => (IsError(R) /\ buffer = <<>>)

C5_Witness == Done /\ IsPdf(R) /\ Len(TableModel(P)) >= 1

(***************************************************************************)
(* C6.  The response to a renderer failure is opaque: it is the response   *)
(* any other renderer failure would have got.                              *)
(***************************************************************************)
C6_RenderFailureOpaque ==
    (Done /\ raised # <<>> /\ raised[1].at = "render")
        => \A e \in BuildErrors : R = except_handler(e)

(***************************************************************************)
(* C7.  At every cell-close one cell is appended to the current row, and   *)
(* its emphasis is the value the bold flag holds immediately before the    *)
(* cell-close.                                                             *)
(***************************************************************************)
C7_EmphasisAtClose ==
    [][(pc = "feed" /\ fed' = Append(fed, End("td")))
        => LET row == parser[1].heap[parser[1].current_row]
               row2 == parser'[1].heap[parser'[1].current_row]
           IN  /\ parser'[1].current_row = parser[1].current_row
               /\ Len(row2) = Len(row) + 1
               /\ SubSeq(row2, 1, Len(row)) = row
               /\ row2[Len(row2)].is_bold = parser[1].is_bold]_vars

\* a cell closed with the flag set, the flag having been clear at its open
C7_Witness ==
    /\ OpenCellJustClosed
    /\ LastCell.is_bold
    /\ ~ParserAfter(SubSeq(fed, 1, OpenIndex(Before))).is_bold

(***************************************************************************)
(* C8 as stated.  A cell with no bold tag between its open and its close   *)
(* is recorded with emphasis = false, whatever came before its open.       *)
(***************************************************************************)
C8_NoBoldTagNotBold ==
    (OpenCellJustClosed /\ NoTagBetween("b", OpenIndex(Before)))
        => ~LastCell.is_bold

(***************************************************************************)
(* C8 amended.  A cell with no bold tag between its open and its close is  *)
(* recorded with the emphasis the bold flag held at its cell-open.         *)
(***************************************************************************)
C8_EmphasisFromOpen ==
    (OpenCellJustClosed /\ NoTagBetween("b", OpenIndex(Before)))
        => LastCell.is_bold
             = ParserAfter(SubSeq(fed, 1, OpenIndex(Before) - 1)).is_bold

C8_Witness ==
    /\ OpenCellJustClosed /\ NoTagBetween("b", OpenIndex(Before))
    /\ LastCell.is_bold

(***************************************************************************)
(* C9.  A cell closed in preformatted mode, all of whose text arrived in   *)
(* preformatted mode, keeps that text untrimmed.                           *)
(***************************************************************************)
C9_PreformattedKept ==
    (/\ OpenCellJustClosed
     /\ P.in_pre
     /\ \A k \in (OpenIndex(Before) + 1)..(Len(fed) - 1) :
            fed[k].kind = "data" => ParserAfter(SubSeq(fed, 1, k - 1)).in_pre)
        => LastCell.text = join(ChunksFrom(Before, OpenIndex(Before)))

(***************************************************************************)
(* C10.  A cell closed outside preformatted mode holds the chunks received *)
(* since its cell-open, joined in order of arrival, without the leading    *)
(* and trailing whitespace of the joined text and otherwise unchanged;     *)
(* trimming a recorded text again changes nothing.                         *)
(***************************************************************************)
C10_JoinedAndTrimmed ==
    /\ (OpenCellJustClosed /\ ~P.in_pre)
          => Trimmed(LastCell.text, join(ChunksFrom(Before, OpenIndex(Before))))
    /\ Parsing =>
          \A r \in 1..Len(P.heap) : \A c \in 1..Len(P.heap[r]) :
              strip(P.heap[r][c].text) = P.heap[r][c].text

C10_Witness ==
    /\ OpenCellJustClosed /\ ~P.in_pre
    /\ Len(ChunksFrom(Before, OpenIndex(Before))) = 2
    /\ LastCell.text # join(ChunksFrom(Before, OpenIndex(Before)))

(***************************************************************************)
(* C12.  The table model never holds a row without cells: a row-close on   *)
(* an empty row appends nothing, and raises nothing.                       *)
(***************************************************************************)
C12_NoEmptyRow ==
    Parsing =>
        /\ \A i \in 1..Len(TableModel(P)) : TableModel(P)[i] # <<>>
        /\ pc = "feed" => raised = <<>>
        /\ (/\ fed # <<>> /\ fed[Len(fed)] = End("tr")
            /\ ParserAfter(Before).heap[ParserAfter(Before).current_row] = <<>>)
              => P.table_data = ParserAfter(Before).table_data

\* a row-close on an empty row, after a row-open
C12_Witness ==
    /\ Parsing /\ Len(fed) >= 2
    /\ fed[Len(fed)] = End("tr") /\ fed[Len(fed) - 1] = Start("tr")
    /\ P.heap[P.current_row] = <<>>

(***************************************************************************)
(* C13.  Every row-close leaves the row accumulator empty; so the same row *)
(* is never appended to the table model twice.                             *)
(***************************************************************************)
C13_RowCloseResets ==
    Parsing =>
        /\ (fed # <<>> /\ fed[Len(fed)] = End("tr")) => P.heap[P.current_row] = <<>>
        /\ \A i, j \in 1..Len(P.table_data) :
              P.table_data[i] = P.table_data[j] => i = j

(***************************************************************************)
(* C15.  Right after a cell-close the bold flag is false; a cell is        *)
(* recorded with emphasis = true only if, since the previous cell-close    *)
(* (or the start of parsing), a bold-open occurred that no bold-close      *)
(* followed before this cell-close.                                        *)
(***************************************************************************)
C15_EmphasisNotCarried ==
    CellJustClosed =>
        /\ ~P.is_bold
        /\ LastCell.is_bold =>
              \E k \in (LastCloseIndex(Before) + 1)..(Len(fed) - 1) :
                  /\ fed[k] = Start("b")
                  /\ \A m \in (k + 1)..(Len(fed) - 1) : fed[m] # End("b")

\* a second cell recorded with emphasis
C15_Witness ==
    CellJustClosed /\ LastCloseIndex(Before) > 0 /\ LastCell.is_bold

(***************************************************************************)
(* C16.  Every cell-close leaves the cell accumulator empty; a cell-close  *)
(* without a cell-open of its own records a cell with empty text.          *)
(***************************************************************************)
C16_CellCloseResets ==
    CellJustClosed =>
        /\ P.current_cell = <<>>
        /\ OpenIndex(Before) = 0 => LastCell.text = <<>>

(***************************************************************************)
(* C17.  An open or close tag the parser does not know changes nothing of  *)
(* the parser and does not end the parse; a text chunk that arrives in an  *)
(* open cell is appended to the cell accumulator.                          *)
(***************************************************************************)
C17_UnknownTagIgnored ==
    [][/\ (pc = "feed" /\ fed' \in {Append(fed, Start("div")), Append(fed, End("div"))})
            => (parser' = parser /\ pc' = "feed" /\ raised' = <<>> /\ response' = <<>>)
       /\ (/\ pc = "feed" /\ Len(fed') = Len(fed) + 1
           /\ fed'[Len(fed')].kind = "data" /\ OpenIndex(fed) > 0)
            => parser'[1] = [parser[1] EXCEPT
                                !.current_cell = Append(@, fed'[Len(fed')].data)]]_vars

\* text between an unknown open tag and an unknown close tag, inside a cell
C17_Witness ==
    /\ Parsing /\ Len(fed) >= 4
    /\ fed[Len(fed)] = End("div") /\ fed[Len(fed) - 1].kind = "data"
    /\ fed[Len(fed) - 2] = Start("div") /\ fed[Len(fed) - 3] = Start("td")
    /\ P.current_cell = <<fed[Len(fed) - 1].data>>

(***************************************************************************)
(* C18.  The table model only grows by appending: at every step of the     *)
(* parser the table model before the step is a prefix of the table model   *)
(* after it.                                                               *)
(***************************************************************************)
C18_TableModelGrows ==
    [][(parser # <<>> /\ parser' # <<>>)
         => IsPrefix(TableModel(parser[1]), TableModel(parser'[1]))]_vars

(***************************************************************************)
(* C19.  A text chunk that arrives while no cell is open changes nothing   *)
(* of the parser.                                                          *)
(***************************************************************************)
C19_TextOutsideCellIgnored ==
    [][(/\ pc = "feed" /\ Len(fed') = Len(fed) + 1
        /\ fed'[Len(fed')].kind = "data" /\ OpenIndex(fed) = 0)
         => parser' = parser]_vars

\* a chunk arrived between a cell-close and the next cell-open, and the next
\* cell holds none of it
C19_Witness ==
    /\ CellJustClosed /\ Len(fed) >= 4
    /\ fed[Len(fed) - 1] = Start("td")
    /\ fed[Len(fed) - 2].kind = "data"
    /\ fed[Len(fed) - 3] = End("td")
    /\ LastCell.text = <<>>

(***************************************************************************)
(* C11.  For a well-formed table markup whose source has N rows with at    *)
(* least one cell, and any number of rows without cells, the table model   *)
(* has exactly N rows, in source order, each with the cells of its source  *)
(* row, as many and in source order.  (Stated at every row boundary: the   *)
(* table model holds the rows closed so far.)                              *)
(***************************************************************************)
C11_RowsAndCellsPreserved ==
    (Parsing /\ WFAfter(fed).phase \in {"table", "end"}) =>
        LET src == SourceRows(fed).rows
            tm == TableModel(P)
        IN  /\ Len(tm) = Len(src)
            /\ \A i \in 1..Len(src) :
                  /\ Len(tm[i]) = Len(src[i])
                  /\ \A j \in 1..Len(src[i]) : Trimmed(tm[i][j].text, src[i][j])

\* a complete table: a row of two cells, a row without cells, a row of one cell
C11_Witness ==
    /\ Parsing /\ WFAfter(fed).phase = "end" /\ WFAfter(fed).rows = 3
    /\ Len(SourceRows(fed).rows) = 2
    /\ Len(TableModel(P)) = 2
    /\ Len(TableModel(P)[1]) = 2 /\ Len(TableModel(P)[2]) = 1
    /\ TableModel(P)[1][1].text # TableModel(P)[1][2].text

(***************************************************************************)
(* C14.  Two requests handled concurrently, their steps interleaved in any *)
(* order: no parser is shared, the parser of each request is in the state  *)
(* its own callbacks alone lead to, and each response is one the request   *)
(* gets when it runs alone.                                                *)
(***************************************************************************)
\* the responses of a request with body d and callbacks f that runs alone
AloneResponses(d, f) ==
    IF NoField(d) THEN {missing_response}
    ELSE IF BlankField(d) THEN {empty_response}
    ELSE IF TableModel(ParserAfter(f)) = <<>> THEN {except_handler(NoTableError)}
    ELSE {send_file(pdf_bytes(ParserAfter(f)))}
             \cup {except_handler(e) : e \in BuildErrors}

C14_RequestsIndependent ==
    \A i \in Calls :
        /\ reqs[i].parser # 0 =>
              /\ instances[reqs[i].parser] = ParserAfter(reqs[i].fed)
              /\ \A j \in Calls \ {i} : reqs[j].parser # reqs[i].parser
        /\ reqs[i].parser = 0 => reqs[i].fed = <<>>
        /\ reqs[i].pc = "done" =>
              /\ Len(reqs[i].response) = 1
              /\ reqs[i].response[1] \in AloneResponses(reqs[i].data[1], reqs[i].fed)
        /\ reqs[i].pc # "done" => reqs[i].response = <<>>

\* both requests are in the middle of their parse, with different callbacks
\* behind them
C14_Witness ==
    /\ reqs[1].pc = "feed" /\ reqs[2].pc = "feed"
    /\ reqs[1].fed = <<End("td"), End("tr")>>
    /\ reqs[2].fed = <<Start("td")>>
    /\ TableModel(instances[reqs[1].parser]) # <<>>
    /\ TableModel(instances[reqs[2].parser]) = <<>>

=============================================================================
